---- MODULE Spec2Model ----
(***************************************************************************)
(* The Claudetorio session broker (packages/broker/main.py): slot          *)
(* allocation, the session lifecycle (claim, release, timeout), the score  *)
(* poller, over the Durable Store (PostgreSQL tables), the Lock Service    *)
(* (Redis SET NX EX) and the saves directory.                              *)
(*                                                                         *)
(* One action is one run of a coroutine between two suspension points      *)
(* (an awaited store, lock or sleep call).  A call that never suspends     *)
(* (the synchronous RCON helpers) belongs to the action it is made in.     *)
(* The clock counts session time budgets: one unit is                      *)
(* SESSION_TIMEOUT_HOURS hours, the budget of a session and the expiry of   *)
(* a slot lock.                                                            *)
(***************************************************************************)
EXTENDS Integers, Sequences, FiniteSets, TLC

\* ------------------------------------------------------------------ bounds
TOTAL_SLOTS == 2
NumTasks == 2
MaxReqs == 2
MaxTime == 2
MaxScore == 1
MaxHist == 1
RoundReqs == 3
NumSockets == 1
PublishSockets == 2
SaveReqs == 4
SampleHist == 2
QueryReqs == 3

\* timedelta(hours=SESSION_TIMEOUT_HOURS) and ex=SESSION_TIMEOUT_HOURS * 3600,
\* in clock units.
SessionBudget == 1
LockExpiry == SessionBudget

\* The users that send requests, and the users whose sessions are there already
\* when a burst of claims arrives (the one of slot s is Residents[s + 1]).
Users == {"u1", "u2"}
Residents == <<"r1", "r2">>
AllUsers == Users \cup {Residents[i] : i \in 1 .. Len(Residents)}
Slots == 0 .. (TOTAL_SLOTS - 1)
Tasks == 1 .. NumTasks
Scores == 0 .. MaxScore
Sockets == 1 .. PublishSockets

NULL == -1
NoSlot == -1
NoUser == ""

\* Save names.  A user names a save "s1"; the sweeper names its autosave after
\* the clock, autosave_<timestamp>.
NoSave == [kind |-> "none", n |-> 0]
UserSave(n) == [kind |-> "user", n |-> n]
AutosaveName(t) == [kind |-> "autosave", n |-> t]
SaveNameInputs == {NoSave, UserSave(1)}

VARIABLES
    now,            \* the clock (datetime.utcnow(), NOW(), the Redis clock)
    sessions,       \* table sessions, by session_id
    users,          \* table users, by username
    saves,          \* table saves: a set of rows, UNIQUE(username, save_name)
    files,          \* the .zip files present under SAVES_DIR
    locks,          \* Redis keys slot_lock:<slot>
    score_history,  \* table score_history, in insertion order
    snapshots,      \* table session_snapshots, by session_id
    tasks,          \* the request handlers in flight
    sweeper,        \* the session_timeout_checker task
    poller,         \* the score_polling_loop task
    reqs,           \* requests received so far
    last,           \* the request answered last, with its response
    lim,            \* the bounds of the run: requests, handlers, clock, history
    active_websockets,  \* the dict active_websockets, by session_id
    streams,        \* the websocket connections of session_stream
    reporter,       \* the activity reporter process of an agent (reporter.py)
    activity,       \* the _post_activity calls of the agent's MCP tools
    score_reads     \* the calls of _sync_get_slot_score made on their own

\* The session ids a run can hand out: one per request.
SessionIds == 1 .. lim.reqs

vars == <<now, sessions, users, saves, files, locks, score_history, snapshots,
          tasks, sweeper, poller, reqs, last, lim, active_websockets, streams,
          reporter, activity, score_reads>>

\* ------------------------------------------------------------------ rows
NoSession ==
    [status |-> "none", username |-> NoUser, slot |-> NoSlot, started_at |-> NULL,
     ended_at |-> NULL, final_score |-> NULL, save_loaded |-> NoSave,
     save_created |-> NoSave]

NoUserRow == [exists |-> FALSE, best_score |-> 0, total_playtime_seconds |-> 0]
NewUserRow == [exists |-> TRUE, best_score |-> 0, total_playtime_seconds |-> 0]

NoLock == [holder |-> NoUser, by |-> 0, expiry |-> 0]

\* The four sections of a snapshot row, named after get_session_inventory,
\* get_session_research, get_session_production and get_session_factory.
Sections == {"inventory", "research", "production", "factory"}

\* No row of session_snapshots.  `data` is what the four *_data columns hold and
\* `queried` how the query of each section went (not a column).
NoSnapshot ==
    [exists |-> FALSE, final_score |-> 0, playtime_seconds |-> 0,
     data |-> [section \in Sections |-> "none"],
     queried |-> [section \in Sections |-> "none"]]

IdleTask ==
    [pc |-> "idle", op |-> "none", req |-> 0, username |-> NoUser,
     save_name |-> NoSave, sid |-> 0, slot |-> NoSlot,
     final_score |-> 0, playtime |-> 0, missing |-> FALSE,
     section |-> "none", body |-> "none"]

NoResponse ==
    [op |-> "none", req |-> 0, username |-> NoUser, save_name |-> NoSave,
     sid |-> 0, missing |-> FALSE, section |-> "none", body |-> "none", resp |-> 0]

\* A session id that is no key of active_websockets; a websocket not yet connected.
NoEntry == [present |-> FALSE, sockets |-> <<>>]

IdleStream == [pc |-> "idle", sid |-> 0, code |-> 0]

\* The elements of a list.
Range(list) == {list[i] : i \in 1 .. Len(list)}

\* A background loop asleep.  `autosave` follows the timeout checker through
\* its try block: "failed" once save_slot_state has raised into the except.
\* The poller in its broadcast: `ws` is the websocket of the send under way and
\* `index` the position of the list iterator; `list` is the list it iterates
\* once release_session has deleted the dict entry (`orphaned`), the list of
\* the entry until then.  `listed`, `delivered` and `failed` record the list at
\* the start of the publish and the sends that returned and that raised.
IdleLoop ==
    [pc |-> "idle", queue |-> <<>>, final_score |-> 0, playtime |-> 0,
     save_name |-> NoSave, autosave |-> "none",
     ws |-> 0, index |-> 0, orphaned |-> FALSE, list |-> <<>>,
     listed |-> <<>>, delivered |-> {}, failed |-> {}]

\* A row of a SELECT session_id, username, slot FROM sessions.
Listed(sid) ==
    [session_id |-> sid, username |-> sessions[sid].username, slot |-> sessions[sid].slot]

Max(a, b) == IF a >= b THEN a ELSE b

\* The sequences that list the elements of a finite set, each once.
RECURSIVE Orderings(_)
Orderings(S) ==
    IF S = {} THEN {<<>>}
    ELSE UNION {{<<x>> \o q : q \in Orderings(S \ {x})} : x \in S}

\* ------------------------------------------------------------------ Init
\* The bounds of a run: requests, handlers, clock, history rows, whether a
\* statement sent to the store may fail, and the websockets that connect.
Limits(r, t, c, h, f) ==
    [reqs |-> r, tasks |-> t, time |-> c, hist |-> h, faults |-> f,
     sockets |-> NumSockets, queries |-> FALSE]

\* No reporter process: the agent has not been started.  `stdin` is what the
\* agent will print, `read` how much of it the reporter has consumed, `stdout`
\* what it has passed on, `buffer` the deque, `batch` the batch of the final
\* flush and of the flusher thread, `posted` the POST requests made, in order.
NoReporter ==
    [stdin |-> <<>>, read |-> 0, stdout |-> <<>>, buffer |-> <<>>,
     main |-> "none", batch |-> <<>>, flusher |-> "none", flusher_batch |-> <<>>,
     posted |-> <<>>]

\* No MCP tool has reported anything: `calls` counts the _post_activity calls,
\* `requests` are the POST requests they made, `returned` says how the last
\* call went and `raised` whether an exception left it.
NoActivity == [calls |-> 0, requests |-> <<>>, returned |-> "none", raised |-> FALSE]

\* The outcomes of a store statement that may fail.
StoreOutcomes == IF lim.faults THEN BOOLEAN ELSE {TRUE}

InitWith(limits) ==
    /\ lim = limits
    /\ now = 0
    /\ sessions = [sid \in 1 .. limits.reqs |-> NoSession]
    /\ users = [u \in AllUsers |-> NoUserRow]
    /\ saves = {}
    /\ files = {}
    /\ locks = [s \in Slots |-> NoLock]
    /\ score_history = <<>>
    /\ snapshots = [sid \in 1 .. limits.reqs |-> NoSnapshot]
    /\ tasks = [t \in Tasks |-> IdleTask]
    /\ sweeper = IdleLoop
    /\ poller = IdleLoop
    /\ reqs = 0
    /\ last = NoResponse
    /\ active_websockets = [sid \in 1 .. limits.reqs |-> NoEntry]
    /\ streams = [w \in Sockets |-> IdleStream]
    /\ reporter = NoReporter
    /\ activity = NoActivity
    /\ score_reads = <<>>

Init == InitWith(Limits(MaxReqs, NumTasks, MaxTime, MaxHist, TRUE))

\* ------------------------------------------------------------------ slots
ActiveSessions == {sid \in SessionIds : sessions[sid].status = "active"}

\* The existing-session check left out.
ExistingActiveUnchecked(username) == {}

\* SELECT session_id, slot FROM sessions WHERE username = $1 AND status = 'active'
ExistingActive(username) ==
    {sid \in SessionIds :
        sessions[sid].username = username /\ sessions[sid].status = "active"}

\* The scan left out: the first slot of the range, whatever the sessions are.
get_free_slot_unscanned ==
    IF Slots = {} THEN NoSlot
    ELSE CHOOSE slot \in Slots : \A other \in Slots : slot <= other

\* The scan that returns the last free slot of the range instead of the first.
get_free_slot_last ==
    LET active_set == {sessions[sid].slot : sid \in ActiveSessions}
        free == {slot \in Slots : slot \notin active_set}
    IN  IF free = {} THEN NoSlot
        ELSE CHOOSE slot \in free : \A other \in free : slot >= other

\* get_free_slot: the first slot of range(TOTAL_SLOTS) no active session is on.
get_free_slot ==
    LET active_set == {sessions[sid].slot : sid \in ActiveSessions}
        free == {slot \in Slots : slot \notin active_set}
    IN  IF free = {} THEN NoSlot
        ELSE CHOOSE slot \in free : \A other \in free : slot <= other

\* SET without NX: the key is set whether or not it is there.
LockAcquiredWithoutNX(slot) == TRUE

\* SET NX that takes a key over when it expires within a budget.
LockAcquiredIfExpiring(slot) ==
    locks[slot] = NoLock \/ locks[slot].expiry <= now + LockExpiry

\* claim_slot_lock: SET slot_lock:<slot> username NX EX timeout.  The key is set
\* only if absent; `by` records the claim that set it (not a Redis field).
LockAcquired(slot) == locks[slot] = NoLock

LockSet(slot, username, req) ==
    [locks EXCEPT ![slot] =
        [holder |-> username, by |-> req, expiry |-> now + LockExpiry]]

\* The release that leaves the key where it is.
release_slot_lock_skipped(slot) == locks

\* release_slot_lock: DEL slot_lock:<slot>, whoever holds it.
release_slot_lock(slot) == [locks EXCEPT ![slot] = NoLock]

\* The handler of task t returns: the response is kept in `last`, the task is free.
Response(r, code) ==
    [op |-> r.op, req |-> r.req, username |-> r.username, save_name |-> r.save_name,
     sid |-> r.sid, missing |-> r.missing, section |-> r.section, body |-> r.body,
     resp |-> code]

Respond(t, code) ==
    /\ tasks' = [tasks EXCEPT ![t] = IdleTask]
    /\ last' = Response(tasks[t], code)

Continue(t, r) ==
    /\ tasks' = [tasks EXCEPT ![t] = r]
    /\ last' = last

\* A request is taken by the first free handler (handlers are interchangeable).
FreeTask(t) ==
    /\ t <= lim.tasks
    /\ reqs < lim.reqs
    /\ tasks[t].pc = "idle"
    /\ \A other \in Tasks : other < t => tasks[other].pc # "idle"

\* ------------------------------------------------------------------ claim
\* claim_session, from the request to the end of the existing-session check.
claim_check(t) ==
    /\ FreeTask(t)
    /\ reqs' = reqs + 1
    /\ \E username \in Users, save_name \in SaveNameInputs :
        LET r == [IdleTask EXCEPT !.op = "claim", !.req = reqs + 1,
                      !.username = username, !.save_name = save_name]
        IN  IF ExistingActive(username) # {}
            THEN /\ tasks' = tasks
                 /\ last' = Response(r, 409)
            ELSE Continue(t, [r EXCEPT !.pc = "c_scan"])
    /\ UNCHANGED <<score_reads, reporter, activity, now, sessions, users, saves, files, locks, score_history,
                   snapshots, sweeper, poller, lim,
                   active_websockets, streams>>

\* slot = await get_free_slot()
claim_scan(t) ==
    /\ tasks[t].pc = "c_scan"
    /\ IF get_free_slot = NoSlot
       THEN Respond(t, 503)
       ELSE Continue(t, [tasks[t] EXCEPT !.pc = "c_lock", !.slot = get_free_slot])
    /\ UNCHANGED <<score_reads, reporter, activity, now, sessions, users, saves, files, locks, score_history,
                   snapshots, sweeper, poller, reqs, lim,
                   active_websockets, streams>>

\* if not await claim_slot_lock(slot, username): 503
claim_lock(t) ==
    /\ tasks[t].pc = "c_lock"
    /\ IF LockAcquired(tasks[t].slot)
       THEN /\ locks' = LockSet(tasks[t].slot, tasks[t].username, tasks[t].req)
            /\ Continue(t, [tasks[t] EXCEPT !.pc = "c_user"])
       ELSE /\ locks' = locks
            /\ Respond(t, 503)
    /\ UNCHANGED <<score_reads, reporter, activity, now, sessions, users, saves, files, score_history,
                   snapshots, sweeper, poller, reqs, lim,
                   active_websockets, streams>>

\* INSERT INTO users (username) ... ON CONFLICT DO NOTHING; a failed statement
\* raises into the handler's `except Exception`.
claim_user(t) ==
    /\ tasks[t].pc = "c_user"
    /\ \E ok \in StoreOutcomes :
        IF ok
        THEN /\ users' = [users EXCEPT ![tasks[t].username] =
                    IF @.exists THEN @ ELSE NewUserRow]
             /\ Continue(t, [tasks[t] EXCEPT !.pc = "c_insert"])
        ELSE /\ users' = users
             /\ Continue(t, [tasks[t] EXCEPT !.pc = "c_exc"])
    /\ UNCHANGED <<score_reads, reporter, activity, now, sessions, saves, files, locks, score_history,
                   snapshots, sweeper, poller, reqs, lim,
                   active_websockets, streams>>

\* The row claim_session inserts.
NewSession(username, slot, save_name) ==
    [status |-> "active", username |-> username, slot |-> slot,
     started_at |-> now, ended_at |-> NULL, final_score |-> NULL,
     save_loaded |-> save_name, save_created |-> NoSave]

\* INSERT INTO sessions (...) VALUES (..., 'active', save_name).  The session id
\* is fresh (uuid4): the claim's request number stands for it.  Without a save
\* name the handler queues reset_slot and returns.
claim_insert(t) ==
    /\ tasks[t].pc = "c_insert"
    /\ \E ok \in StoreOutcomes :
        IF ok
        THEN /\ sessions' = [sessions EXCEPT ![tasks[t].req] =
                    NewSession(tasks[t].username, tasks[t].slot, tasks[t].save_name)]
             /\ Continue(t, [tasks[t] EXCEPT !.pc = "c_load", !.sid = tasks[t].req])
        ELSE /\ sessions' = sessions
             /\ Continue(t, [tasks[t] EXCEPT !.pc = "c_exc"])
    /\ UNCHANGED <<score_reads, reporter, activity, now, users, saves, files, locks, score_history,
                   snapshots, sweeper, poller, reqs, lim,
                   active_websockets, streams>>

\* save_path.exists()
SaveFileExists(username, save_name) ==
    [username |-> username, save_name |-> save_name] \in files

\* After the connection is given back: without a save name reset_slot is queued;
\* with one, its file exists and load_save_to_slot is queued, or the claim starts
\* its rollback with release_slot_lock(slot).  With a task queued the handler
\* returns its ClaimResponse, and the task runs once the response is sent.
claim_load(t) ==
    /\ tasks[t].pc = "c_load"
    /\ IF tasks[t].save_name = NoSave
          \/ SaveFileExists(tasks[t].username, tasks[t].save_name)
       THEN /\ locks' = locks
            /\ tasks' = [tasks EXCEPT ![t].pc = "c_task"]
            /\ last' = Response(tasks[t], 200)
       ELSE /\ locks' = release_slot_lock(tasks[t].slot)
            /\ Continue(t, [tasks[t] EXCEPT !.pc = "c_rb_delete", !.missing = TRUE])
    /\ UNCHANGED <<score_reads, reporter, activity, now, sessions, users, saves, files, score_history,
                   snapshots, sweeper, poller, reqs, lim,
                   active_websockets, streams>>

\* score_history.session_id and session_snapshots.session_id REFERENCES
\* sessions(session_id): a referenced session row cannot be deleted.
Referenced(sid) ==
    \/ \E i \in 1 .. Len(score_history) : score_history[i].session_id = sid
    \/ snapshots[sid].exists

\* DELETE FROM sessions WHERE session_id = $1, then 404.  A refused DELETE is
\* not an HTTPException: it goes to `except Exception`.
claim_rollback_delete(t) ==
    /\ tasks[t].pc = "c_rb_delete"
    /\ IF Referenced(tasks[t].sid)
       THEN /\ sessions' = sessions
            /\ Continue(t, [tasks[t] EXCEPT !.pc = "c_exc"])
       ELSE /\ sessions' = [sessions EXCEPT ![tasks[t].sid] = NoSession]
            /\ Respond(t, 404)
    /\ UNCHANGED <<score_reads, reporter, activity, now, users, saves, files, locks, score_history,
                   snapshots, sweeper, poller, reqs, lim,
                   active_websockets, streams>>

\* except Exception: await release_slot_lock(slot); raise HTTPException(500)
claim_except(t) ==
    /\ tasks[t].pc = "c_exc"
    /\ locks' = release_slot_lock(tasks[t].slot)
    /\ Respond(t, 500)
    /\ UNCHANGED <<score_reads, reporter, activity, now, sessions, users, saves, files, score_history,
                   snapshots, sweeper, poller, reqs, lim,
                   active_websockets, streams>>

\* The queued task: load_save_to_slot(slot, save_path) or reset_slot(slot).  Its
\* copy and its RCON command run without suspending; either can raise, and the
\* task's except branch prints the error and raises it again.
claim_task(t) ==
    /\ tasks[t].pc = "c_task"
    /\ \E ok \in BOOLEAN :
        tasks' = [tasks EXCEPT ![t] =
            IF ok THEN IdleTask ELSE [@ EXCEPT !.pc = "c_task_raised"]]
    /\ UNCHANGED <<score_reads, reporter, activity, now, sessions, users, saves, files, locks, score_history,
                   snapshots, sweeper, poller, reqs, last, lim,
                   active_websockets, streams>>

\* The exception of the queued task leaves claim_session's request: the
\* response is out already, and nothing catches it but the server's log.
claim_task_raised(t) ==
    /\ tasks[t].pc = "c_task_raised"
    /\ tasks' = [tasks EXCEPT ![t] = IdleTask]
    /\ UNCHANGED <<score_reads, reporter, activity, now, sessions, users, saves, files, locks, score_history,
                   snapshots, sweeper, poller, reqs, last, lim,
                   active_websockets, streams>>

Claim(t) ==
    \/ claim_check(t)
    \/ claim_scan(t)
    \/ claim_lock(t)
    \/ claim_user(t)
    \/ claim_insert(t)
    \/ claim_load(t)
    \/ claim_task(t)
    \/ claim_task_raised(t)
    \/ claim_rollback_delete(t)
    \/ claim_except(t)

\* ------------------------------------------------------------------ game
\* What an RCON score command can come to: the connection or the command
\* raises ("error"), the reply is empty, the reply is neither a Lua dump with a
\* ["player"] entry nor JSON ("unparseable"), the reply is JSON but not an object
\* ("json_value"), or the reply is such a dump or a JSON object and carries the
\* player's score.  A JSON object can carry
\* "player": null, which data.get("player", 0) hands on as None.
RconFailures == {"error", "empty", "unparseable", "json_value"}

RconReplies ==
    [kind : RconFailures, player : {0}]
        \cup [kind : {"dump", "json"}, player : Scores]
        \cup [kind : {"json"}, player : {NULL}]

\* The score read that hands on what it had last instead of 0.
sync_get_slot_score_stale(reply) ==
    IF reply.kind \in {"dump", "json"} THEN reply.player ELSE MaxScore

\* _sync_get_slot_score(slot)['score']: the player's score of a dump or a JSON
\* reply, 0 for an empty reply, an unparseable one or an exception.
sync_get_slot_score(reply) ==
    CASE reply.kind = "error" -> 0
      [] reply.kind = "empty" -> 0
      [] reply.kind = "dump" -> reply.player
      [] reply.kind = "json" -> reply.player
      [] reply.kind = "unparseable" -> 0
      [] reply.kind = "json_value" -> 0

\* The score read without its outer `except Exception`.
get_slot_score_unguarded(reply) ==
    [raised |-> reply.kind \in {"error", "json_value"},
     score |-> sync_get_slot_score(reply),
     extra |-> CASE reply.kind \in {"dump", "unparseable"} -> "raw"
                 [] OTHER -> "none"]

\* get_slot_score(slot): the dict _sync_get_slot_score returns, with its score
\* and its 'raw' or 'error' key, and whether an exception leaves the call.  A
\* JSON reply that is not an object fails in data.get (AttributeError), which
\* the outer handler catches like a failed connection.
get_slot_score(reply) ==
    [raised |-> FALSE,
     score |-> sync_get_slot_score(reply),
     extra |-> CASE reply.kind \in {"error", "json_value"} -> "error"
                 [] reply.kind \in {"dump", "unparseable"} -> "raw"
                 [] OTHER -> "none"]

\* One call of get_slot_score on its own, for a slot and a reply of its game.
MaxReads == 2

score_read ==
    /\ Len(score_reads) < MaxReads
    /\ \E slot \in Slots, reply \in RconReplies :
        score_reads' = Append(score_reads,
            [slot |-> slot, reply |-> reply, result |-> get_slot_score(reply)])
    /\ UNCHANGED <<now, sessions, users, saves, files, locks, score_history,
                   snapshots, tasks, sweeper, poller, reqs, last, lim,
                   active_websockets, streams, reporter, activity>>

\* get_slot_score(slot).get('score', 0) over every reply.
SlotScores == {sync_get_slot_score(reply) : reply \in RconReplies}

\* INSERT INTO saves ... ON CONFLICT (username, save_name) DO UPDATE SET
\* last_played = NOW(), score_at_save = $4, playtime_seconds =
\* saves.playtime_seconds + $5 (release_session).  The timestamps and the file
\* path of a row are left out.
SaveRows(username, save_name) ==
    {row \in saves : row.username = username /\ row.save_name = save_name}

\* The statement with SET playtime_seconds = $5: the playtime is overwritten.
UpsertSaveOverwritingPlaytime(username, save_name, score, playtime) ==
    (saves \ SaveRows(username, save_name)) \cup
        {[username |-> username, save_name |-> save_name,
          score_at_save |-> score, playtime_seconds |-> playtime]}

UpsertSaveOnRelease(username, save_name, score, playtime) ==
    LET old == SaveRows(username, save_name)
        base == IF old = {} THEN 0 ELSE (CHOOSE row \in old : TRUE).playtime_seconds
    IN  (saves \ old) \cup
            {[username |-> username, save_name |-> save_name,
              score_at_save |-> score, playtime_seconds |-> base + playtime]}

\* The same statement in session_timeout_checker: ON CONFLICT DO UPDATE SET
\* last_played = NOW(), score_at_save = $4 (the playtime is kept).
UpsertSaveOnExpiry(username, save_name, score, playtime) ==
    LET old == SaveRows(username, save_name)
        kept == IF old = {} THEN playtime ELSE (CHOOSE row \in old : TRUE).playtime_seconds
    IN  (saves \ old) \cup
            {[username |-> username, save_name |-> save_name,
              score_at_save |-> score, playtime_seconds |-> kept]}

\* save_slot_state after its sleep: shutil.copy2(fle_save, save_path) if the game
\* wrote fle_save, a warning otherwise.
CopySave(written, username, save_name) ==
    IF written THEN files \cup {[username |-> username, save_name |-> save_name]}
    ELSE files

\* UPDATE sessions SET status = ..., ended_at = NOW(), final_score = ... WHERE
\* session_id = $1: the row with that id, whatever its status.
TerminateRow(sid, status, score) ==
    IF sessions[sid].status = "none" THEN sessions
    ELSE [sessions EXCEPT ![sid].status = status, ![sid].ended_at = now,
                          ![sid].final_score = score]

\* The statement with SET best_score = $1: the last score, not the greatest.
UpdateUserStatsLastScore(username, score, playtime) ==
    IF users[username].exists
    THEN [users EXCEPT ![username].best_score = score,
                       ![username].total_playtime_seconds = @ + playtime]
    ELSE users

\* UPDATE users SET best_score = GREATEST(best_score, $1),
\* total_playtime_seconds = total_playtime_seconds + $2 WHERE username = $3
UpdateUserStats(username, score, playtime) ==
    IF users[username].exists
    THEN [users EXCEPT ![username].best_score = Max(@, score),
                       ![username].total_playtime_seconds = @ + playtime]
    ELSE users

\* ------------------------------------------------------------------ release
\* The SELECT without AND status = 'active'.
FetchAnyStatus(sid) == sid \in SessionIds /\ sessions[sid].status # "none"

\* SELECT * FROM sessions WHERE session_id = $1 AND status = 'active'
FetchActive(sid) == sid \in SessionIds /\ sessions[sid].status = "active"

\* release_session, from the request to the snapshot INSERT: the active-session
\* check (404), the score read, the playtime, the four snapshot queries.
release_fetch(t) ==
    /\ FreeTask(t)
    /\ reqs' = reqs + 1
    /\ \E sid \in 1 .. (reqs + 1), save_name \in SaveNameInputs, score \in SlotScores :
        LET r == [IdleTask EXCEPT !.op = "release", !.req = reqs + 1, !.sid = sid,
                      !.save_name = save_name]
        IN  IF ~FetchActive(sid)
            THEN /\ tasks' = tasks
                 /\ last' = Response(r, 404)
            ELSE Continue(t, [r EXCEPT !.pc = "r_snap",
                                  !.slot = sessions[sid].slot,
                                  !.username = sessions[sid].username,
                                  !.final_score = score,
                                  !.playtime = now - sessions[sid].started_at])
    /\ UNCHANGED <<score_reads, reporter, activity, now, sessions, users, saves, files, locks, score_history,
                   snapshots, sweeper, poller, lim,
                   active_websockets, streams>>

\* How the RCON commands of one snapshot query can go: the game answers with
\* the data ("ok"); the connection or a command raises ("raised"); the reply is
\* empty or holds the text Error ("refused"); the reply is no JSON ("garbled").
QueryOutcomes ==
    IF lim.queries THEN {"ok", "raised", "refused", "garbled"} ELSE {"ok"}

\* What each helper returns: the captured section ("captured"), the section's
\* empty defaults ("defaults"), the defaults with an "error" entry
\* ("defaults+error"), or an "error" entry alone ("error").
\* _sync_get_research: except Exception returns the defaults with "error"; an
\* empty reply and a failed float() or json.loads leave the defaults (pass).
sync_get_research(outcome) ==
    CASE outcome = "ok" -> "captured"
      [] outcome = "raised" -> "defaults+error"
      [] outcome = "refused" -> "defaults"
      [] outcome = "garbled" -> "defaults"

\* _sync_get_production: as _sync_get_research; a reply with Error is skipped.
sync_get_production(outcome) ==
    CASE outcome = "ok" -> "captured"
      [] outcome = "raised" -> "defaults+error"
      [] outcome = "refused" -> "defaults"
      [] outcome = "garbled" -> "defaults"

\* _sync_get_inventory: an empty reply or one with Error returns {"items": {},
\* "total": 0}; a JSONDecodeError adds "error": "Parse error"; except Exception
\* adds "error": str(e).
sync_get_inventory(outcome) ==
    CASE outcome = "ok" -> "captured"
      [] outcome = "raised" -> "defaults+error"
      [] outcome = "refused" -> "defaults"
      [] outcome = "garbled" -> "defaults+error"

\* _sync_get_factory_data: every failure returns {"error": ...}.
sync_get_factory_data(outcome) ==
    CASE outcome = "ok" -> "captured"
      [] outcome = "raised" -> "error"
      [] outcome = "refused" -> "error"
      [] outcome = "garbled" -> "error"

\* The four *_data values of the snapshot INSERT, for the outcomes q of the
\* four queries.
SnapshotData(q) ==
    [section \in Sections |->
        CASE section = "research" -> sync_get_research(q[section])
          [] section = "production" -> sync_get_production(q[section])
          [] section = "inventory" -> sync_get_inventory(q[section])
          [] section = "factory" -> sync_get_factory_data(q[section])]

\* INSERT INTO session_snapshots ... ON CONFLICT (session_id) DO UPDATE, inside
\* the try of the capture: with the session row gone the INSERT is refused,
\* which is caught and logged.
StoreSnapshot(t, q) ==
    IF sessions[tasks[t].sid].status = "none" THEN snapshots
    ELSE [snapshots EXCEPT ![tasks[t].sid] =
            [exists |-> TRUE, final_score |-> tasks[t].final_score,
             playtime_seconds |-> tasks[t].playtime,
             data |-> SnapshotData(q), queried |-> q]]

\* The release that saves whether or not a save name was given.
release_snapshot_saving(t) ==
    /\ tasks[t].pc = "r_snap"
    /\ \E q \in [Sections -> QueryOutcomes] : snapshots' = StoreSnapshot(t, q)
    /\ \E rcon_ok \in BOOLEAN :
            IF rcon_ok
            THEN Continue(t, [tasks[t] EXCEPT !.pc = "r_save"])
            ELSE Respond(t, 500)
    /\ UNCHANGED <<score_reads, reporter, activity, now, sessions, users, saves, files, locks, score_history,
                   sweeper, poller, reqs, lim,
                   active_websockets, streams>>

\* INSERT INTO session_snapshots ... ON CONFLICT (session_id) DO UPDATE (with the
\* session row gone the INSERT is refused, which is caught and logged); then,
\* with a save name, save_slot_state up to its sleep: a failed RCON save command
\* raises out of release_session (500).
release_snapshot(t) ==
    /\ tasks[t].pc = "r_snap"
    /\ \E q \in [Sections -> QueryOutcomes] : snapshots' = StoreSnapshot(t, q)
    /\ IF tasks[t].save_name = NoSave
       THEN Continue(t, [tasks[t] EXCEPT !.pc = "r_update"])
       ELSE \E rcon_ok \in BOOLEAN :
                IF rcon_ok
                THEN Continue(t, [tasks[t] EXCEPT !.pc = "r_save"])
                ELSE Respond(t, 500)
    /\ UNCHANGED <<score_reads, reporter, activity, now, sessions, users, saves, files, locks, score_history,
                   sweeper, poller, reqs, lim,
                   active_websockets, streams>>

\* save_slot_state after its sleep, then the INSERT INTO saves.
release_save(t) ==
    /\ tasks[t].pc = "r_save"
    /\ \E written \in BOOLEAN :
        files' = CopySave(written, tasks[t].username, tasks[t].save_name)
    /\ saves' = UpsertSaveOnRelease(tasks[t].username, tasks[t].save_name,
                                    tasks[t].final_score, tasks[t].playtime)
    /\ Continue(t, [tasks[t] EXCEPT !.pc = "r_update"])
    /\ UNCHANGED <<score_reads, reporter, activity, now, sessions, users, locks, score_history, snapshots,
                   sweeper, poller, reqs, lim,
                   active_websockets, streams>>

\* UPDATE sessions SET status = 'completed', ended_at = NOW(), final_score = $1,
\* save_created = $2 WHERE session_id = $3
release_update(t) ==
    /\ tasks[t].pc = "r_update"
    /\ sessions' =
        LET done == TerminateRow(tasks[t].sid, "completed", tasks[t].final_score)
        IN  IF sessions[tasks[t].sid].status = "none" THEN done
            ELSE [done EXCEPT ![tasks[t].sid].save_created = tasks[t].save_name]
    /\ Continue(t, [tasks[t] EXCEPT !.pc = "r_user"])
    /\ UNCHANGED <<score_reads, reporter, activity, now, users, saves, files, locks, score_history, snapshots,
                   sweeper, poller, reqs, lim,
                   active_websockets, streams>>

release_user(t) ==
    /\ tasks[t].pc = "r_user"
    /\ users' = UpdateUserStats(tasks[t].username, tasks[t].final_score, tasks[t].playtime)
    /\ Continue(t, [tasks[t] EXCEPT !.pc = "r_unlock"])
    /\ UNCHANGED <<score_reads, reporter, activity, now, sessions, saves, files, locks, score_history, snapshots,
                   sweeper, poller, reqs, lim,
                   active_websockets, streams>>

\* await release_slot_lock(slot); if session_id in active_websockets: del
\* active_websockets[session_id]; then the response {final_score, saved_as}.
release_unlock(t) ==
    /\ tasks[t].pc = "r_unlock"
    /\ locks' = release_slot_lock(tasks[t].slot)
    /\ active_websockets' = [active_websockets EXCEPT ![tasks[t].sid] = NoEntry]
    /\ poller' =
        IF /\ poller.pc = "p_send"
           /\ Head(poller.queue).session_id = tasks[t].sid
           /\ ~poller.orphaned
        THEN [poller EXCEPT !.orphaned = TRUE,
                            !.list = active_websockets[tasks[t].sid].sockets]
        ELSE poller
    /\ Respond(t, 200)
    /\ UNCHANGED <<score_reads, reporter, activity, now, sessions, users, saves, files, score_history, snapshots,
                   sweeper, reqs, lim, streams>>

Release(t) ==
    \/ release_fetch(t)
    \/ release_snapshot(t)
    \/ release_save(t)
    \/ release_update(t)
    \/ release_user(t)
    \/ release_unlock(t)

\* ------------------------------------------------------------------ sweeper
\* A cutoff two budgets back.
OverTwoBudgets(sid) ==
    sessions[sid].status = "active" /\ sessions[sid].started_at < now - 2 * SessionBudget

\* WHERE status = 'active' AND started_at < cutoff, cutoff = utcnow() - budget
OverBudget(sid) ==
    sessions[sid].status = "active" /\ sessions[sid].started_at < now - SessionBudget

\* session_timeout_checker wakes up and lists the over-budget sessions (in no
\* stated order).
sweep_fetch ==
    /\ sweeper.pc = "idle"
    /\ {sid \in SessionIds : OverBudget(sid)} # {}
    /\ \E q \in Orderings({Listed(sid) : sid \in {x \in SessionIds : OverBudget(x)}}) :
        sweeper' = [sweeper EXCEPT !.pc = "s_row", !.queue = q]
    /\ UNCHANGED <<score_reads, reporter, activity, now, sessions, users, saves, files, locks, score_history,
                   snapshots, tasks, poller, reqs, last, lim,
                   active_websockets, streams>>

\* The timeout checker without the try around its autosave: a failed save
\* command ends the sweep.
sweep_row_uncaught ==
    /\ sweeper.pc = "s_row"
    /\ LET sid == Head(sweeper.queue).session_id
       IN  IF sessions[sid].status = "none"
           THEN sweeper' = IdleLoop
           ELSE \E score \in SlotScores, rcon_ok \in BOOLEAN :
                   sweeper' =
                       IF rcon_ok
                       THEN [sweeper EXCEPT
                               !.pc = "s_save",
                               !.final_score = score,
                               !.playtime = now - sessions[sid].started_at,
                               !.save_name = AutosaveName(now),
                               !.autosave = "saving"]
                       ELSE IdleLoop
    /\ UNCHANGED <<score_reads, reporter, activity, now, sessions, users, saves, files, locks, score_history,
                   snapshots, tasks, poller, reqs, last, lim,
                   active_websockets, streams>>

\* For the next listed session: the score read, SELECT started_at (a missing row
\* raises and ends the sweep), the autosave name, save_slot_state up to its
\* sleep (a failed RCON save command is caught: no autosave).
sweep_row ==
    /\ sweeper.pc = "s_row"
    /\ LET sid == Head(sweeper.queue).session_id
       IN  IF sessions[sid].status = "none"
           THEN sweeper' = IdleLoop
           ELSE \E score \in SlotScores, rcon_ok \in BOOLEAN :
                   sweeper' = [sweeper EXCEPT
                       !.pc = IF rcon_ok THEN "s_save" ELSE "s_update",
                       !.final_score = score,
                       !.playtime = now - sessions[sid].started_at,
                       !.save_name = AutosaveName(now),
                       !.autosave = IF rcon_ok THEN "saving" ELSE "failed"]
    /\ UNCHANGED <<score_reads, reporter, activity, now, sessions, users, saves, files, locks, score_history,
                   snapshots, tasks, poller, reqs, last, lim,
                   active_websockets, streams>>

\* save_slot_state after its sleep, then the INSERT INTO saves.
sweep_save ==
    /\ sweeper.pc = "s_save"
    /\ LET session == Head(sweeper.queue)
       IN  /\ \E written \in BOOLEAN :
                files' = CopySave(written, session.username, sweeper.save_name)
           /\ saves' = UpsertSaveOnExpiry(session.username, sweeper.save_name,
                                          sweeper.final_score, sweeper.playtime)
    /\ sweeper' = [sweeper EXCEPT !.pc = "s_update", !.autosave = "stored"]
    /\ UNCHANGED <<score_reads, reporter, activity, now, sessions, users, locks, score_history, snapshots,
                   tasks, poller, reqs, last, lim,
                   active_websockets, streams>>

\* UPDATE sessions SET status = 'expired', ended_at = NOW(), final_score = $2
\* WHERE session_id = $1
sweep_update ==
    /\ sweeper.pc = "s_update"
    /\ sessions' = TerminateRow(Head(sweeper.queue).session_id, "expired",
                                sweeper.final_score)
    /\ sweeper' = [sweeper EXCEPT !.pc = "s_user"]
    /\ UNCHANGED <<score_reads, reporter, activity, now, users, saves, files, locks, score_history, snapshots,
                   tasks, poller, reqs, last, lim,
                   active_websockets, streams>>

sweep_user ==
    /\ sweeper.pc = "s_user"
    /\ users' = UpdateUserStats(Head(sweeper.queue).username, sweeper.final_score,
                                sweeper.playtime)
    /\ sweeper' = [sweeper EXCEPT !.pc = "s_unlock"]
    /\ UNCHANGED <<score_reads, reporter, activity, now, sessions, saves, files, locks, score_history, snapshots,
                   tasks, poller, reqs, last, lim,
                   active_websockets, streams>>

\* await release_slot_lock(session['slot']); then the next listed session, or
\* the sleep until the next sweep.
sweep_unlock ==
    /\ sweeper.pc = "s_unlock"
    /\ locks' = release_slot_lock(Head(sweeper.queue).slot)
    /\ sweeper' = IF Len(sweeper.queue) > 1
                  THEN [IdleLoop EXCEPT !.pc = "s_row", !.queue = Tail(sweeper.queue)]
                  ELSE IdleLoop
    /\ UNCHANGED <<score_reads, reporter, activity, now, sessions, users, saves, files, score_history, snapshots,
                   tasks, poller, reqs, last, lim,
                   active_websockets, streams>>

Sweep ==
    \/ sweep_fetch
    \/ sweep_row
    \/ sweep_save
    \/ sweep_update
    \/ sweep_user
    \/ sweep_unlock

\* ------------------------------------------------------------------ poller
\* score_polling_loop wakes up and lists the active sessions.
poll_fetch ==
    /\ poller.pc = "idle"
    /\ ActiveSessions # {}
    /\ Len(score_history) + Cardinality(ActiveSessions) <= lim.hist
    /\ \E q \in Orderings({Listed(sid) : sid \in ActiveSessions}) :
        poller' = [poller EXCEPT !.pc = "p_insert", !.queue = q]
    /\ UNCHANGED <<score_reads, reporter, activity, now, sessions, users, saves, files, locks, score_history,
                   snapshots, tasks, sweeper, reqs, last, lim,
                   active_websockets, streams>>

\* The tick after a listed session: the next one, or the sleep.
NextListed ==
    IF Len(poller.queue) > 1
    THEN [IdleLoop EXCEPT !.pc = "p_insert", !.queue = Tail(poller.queue)]
    ELSE IdleLoop

\* For the next listed session: the score read and INSERT INTO score_history.
\* The row REFERENCES sessions(session_id): with the session row gone the INSERT
\* raises and ends the tick.  `rcon` records whether the score read got a score
\* from the game (not a column).
poll_insert ==
    /\ poller.pc = "p_insert"
    /\ LET session == Head(poller.queue)
       IN  IF sessions[session.session_id].status = "none"
           THEN /\ score_history' = score_history
                /\ poller' = IdleLoop
           ELSE /\ \E reply \in RconReplies :
                    score_history' = Append(score_history,
                        [username |-> session.username,
                         session_id |-> session.session_id,
                         recorded_at |-> now,
                         score |-> sync_get_slot_score(reply),
                         rcon |-> IF reply.kind \in RconFailures
                                  THEN "failed" ELSE "ok"])
                /\ poller' =
                    IF /\ active_websockets[session.session_id].present
                       /\ active_websockets[session.session_id].sockets # <<>>
                    THEN [poller EXCEPT
                            !.pc = "p_send",
                            !.ws = Head(active_websockets[session.session_id].sockets),
                            !.index = 1,
                            !.listed = active_websockets[session.session_id].sockets]
                    ELSE NextListed
    /\ UNCHANGED <<score_reads, reporter, activity, now, sessions, users, saves, files, locks, snapshots,
                   tasks, sweeper, reqs, last, lim,
                   active_websockets, streams>>

Poll ==
    \/ poll_fetch
    \/ poll_insert

\* The list the broadcast iterates: active_websockets[session_id] as it is now,
\* or the list release_session took out of the dict.
PublishList ==
    IF poller.orphaned THEN poller.list
    ELSE active_websockets[Head(poller.queue).session_id].sockets

\* for ws in active_websockets[session_id]: try: await ws.send_text(message)
\* except: pass.  The send returns or raises; then the list iterator hands out
\* the element at its index in the list as it is by now, or the loop ends and
\* the tick goes on with the next listed session.
poll_send ==
    /\ poller.pc = "p_send"
    /\ \E sent \in BOOLEAN :
        LET done == [poller EXCEPT
                        !.delivered = IF sent THEN @ \cup {poller.ws} ELSE @,
                        !.failed = IF sent THEN @ ELSE @ \cup {poller.ws}]
        IN  poller' =
                IF poller.index < Len(PublishList)
                THEN [done EXCEPT !.ws = PublishList[poller.index + 1],
                                  !.index = poller.index + 1]
                ELSE NextListed
    /\ UNCHANGED <<score_reads, reporter, activity, now, sessions, users, saves, files, locks, score_history,
                   snapshots, tasks, sweeper, reqs, last, lim,
                   active_websockets, streams>>

Publish == poll_send

\* ------------------------------------------------------------------ queries
\* get_session_inventory, get_session_research, get_session_production and
\* get_session_factory: one handler each, alike but for the section they read.

\* The query that answers with the section's defaults and no note.
StoredSectionWithoutNote(sid) == "snapshot"

\* if snapshot and snapshot[<section>_data]: the stored section (json.loads of
\* the text json.dumps stored, never empty); otherwise the section's defaults
\* with "note": "No snapshot available".  release_session stores the four
\* sections in one row.
StoredSection(sid) ==
    IF snapshots[sid].exists THEN "snapshot" ELSE "unavailable"

\* A query, from the request to the end of the status read: 404 without a row,
\* the live RCON read for an 'active' row, otherwise the snapshot SELECT.
query_fetch(t) ==
    /\ FreeTask(t)
    /\ reqs' = reqs + 1
    /\ \E sid \in 1 .. (reqs + 1), section \in Sections :
        LET r == [IdleTask EXCEPT !.op = "query", !.req = reqs + 1, !.sid = sid,
                      !.section = section]
        IN  IF sid \notin SessionIds \/ sessions[sid].status = "none"
            THEN /\ tasks' = tasks
                 /\ last' = Response(r, 404)
            ELSE IF sessions[sid].status = "active"
            THEN /\ tasks' = tasks
                 /\ last' = Response([r EXCEPT !.body = "live"], 200)
            ELSE Continue(t, [r EXCEPT !.pc = "q_snap"])
    /\ UNCHANGED <<score_reads, reporter, activity, now, sessions, users, saves, files, locks, score_history,
                   snapshots, sweeper, poller, lim, active_websockets, streams>>

\* SELECT <section>_data FROM session_snapshots WHERE session_id = $1
query_snapshot(t) ==
    /\ tasks[t].pc = "q_snap"
    /\ tasks' = [tasks EXCEPT ![t] = IdleTask]
    /\ last' = Response([tasks[t] EXCEPT !.body = StoredSection(tasks[t].sid)], 200)
    /\ UNCHANGED <<score_reads, reporter, activity, now, sessions, users, saves, files, locks, score_history,
                   snapshots, sweeper, poller, reqs, lim, active_websockets, streams>>

Query(t) ==
    \/ query_fetch(t)
    \/ query_snapshot(t)

\* ------------------------------------------------------------------ stream
\* list.remove(x): the list without the first x.
RECURSIVE Remove(_, _)
Remove(list, x) ==
    IF list = <<>> THEN <<>>
    ELSE IF Head(list) = x THEN Tail(list)
    ELSE <<Head(list)>> \o Remove(Tail(list), x)

\* The check that asks only whether the row is there.
StreamAcceptsAnyRow(sid) == sid \in SessionIds /\ sessions[sid].status # "none"

\* not (not session or session['status'] != 'active')
StreamAccepts(sid) == sid \in SessionIds /\ sessions[sid].status = "active"

\* session_stream, from the connection to the end of the status read: close
\* code 4004 unless the row is there and 'active'; otherwise the connection is
\* given back to the pool (a suspension) before the websocket is registered.
stream_open(w) ==
    /\ streams[w].pc = "idle"
    /\ w <= lim.sockets
    /\ \E sid \in 1 .. (reqs + 1) :
        streams' = [streams EXCEPT ![w] =
            IF StreamAccepts(sid)
            THEN [pc |-> "accepted", sid |-> sid, code |-> 0]
            ELSE [pc |-> "closed", sid |-> sid, code |-> 4004]]
    /\ UNCHANGED <<score_reads, reporter, activity, now, sessions, users, saves, files, locks, score_history,
                   snapshots, tasks, sweeper, poller, reqs, last, lim,
                   active_websockets>>

\* if session_id not in active_websockets: active_websockets[session_id] = [];
\* active_websockets[session_id].append(websocket); then the first
\* receive_text().
stream_add(w) ==
    /\ streams[w].pc = "accepted"
    /\ active_websockets' = [active_websockets EXCEPT ![streams[w].sid] =
            [present |-> TRUE, sockets |-> Append(@.sockets, w)]]
    /\ streams' = [streams EXCEPT ![w].pc = "open"]
    /\ UNCHANGED <<score_reads, reporter, activity, now, sessions, users, saves, files, locks, score_history,
                   snapshots, tasks, sweeper, poller, reqs, last, lim>>

\* The client disconnects: WebSocketDisconnect, then finally: if session_id in
\* active_websockets: active_websockets[session_id].remove(websocket), which
\* raises when the websocket is not in the list.
stream_disconnect(w) ==
    /\ streams[w].pc = "open"
    /\ streams' = [streams EXCEPT ![w].pc = "closed"]
    /\ active_websockets' =
        LET sid == streams[w].sid
        IN  IF active_websockets[sid].present
            THEN [active_websockets EXCEPT ![sid].sockets = Remove(@, w)]
            ELSE active_websockets
    /\ UNCHANGED <<score_reads, reporter, activity, now, sessions, users, saves, files, locks, score_history,
                   snapshots, tasks, sweeper, poller, reqs, last, lim>>

Stream(w) ==
    \/ stream_open(w)
    \/ stream_add(w)
    \/ stream_disconnect(w)

\* ------------------------------------------------------------------ clock
\* No coroutine is between two of its steps.
Quiet ==
    /\ \A t \in Tasks : tasks[t].pc = "idle"
    /\ sweeper.pc = "idle"
    /\ poller.pc = "idle"

\* A time budget passes; Redis drops the keys whose expiry has come.  A unit of
\* the clock is hours and a handler or a loop's round takes seconds: the clock
\* moves between them, not inside one.
Tick ==
    /\ now < lim.time
    /\ Quiet
    /\ now' = now + 1
    /\ locks' = [s \in Slots |->
            IF locks[s] # NoLock /\ locks[s].expiry <= now + 1 THEN NoLock ELSE locks[s]]
    /\ UNCHANGED <<score_reads, reporter, activity, sessions, users, saves, files, score_history, snapshots,
                   tasks, sweeper, poller, reqs, last, lim,
                   active_websockets, streams>>

\* ------------------------------------------------------------------ specifications
\* The broker: the request handlers, the timeout checker, the score poller and
\* the clock.
Next ==
    \/ \E t \in Tasks : Claim(t)
    \/ \E t \in Tasks : Release(t)
    \/ Sweep
    \/ Poll
    \/ Tick

Spec == Init /\ [][Next]_vars

\* The broker with the subscribers of its score streams.
NextStream ==
    \/ Next
    \/ Publish
    \/ \E w \in Sockets : Stream(w)

SpecStream == Init /\ [][NextStream]_vars

\* The broker without its poller, the timeout checker scheduled fairly: it is
\* never forever at a step it can take (its sleep ends, its awaited calls return).
InitFair == InitWith(Limits(MaxReqs, NumTasks, MaxTime, 0, TRUE))

NextFair ==
    \/ \E t \in Tasks : Claim(t)
    \/ \E t \in Tasks : Release(t)
    \/ Sweep
    \/ Tick

SpecFair == InitFair /\ [][NextFair]_vars /\ WF_vars(Sweep)

\* The poller beside claims alone.
NextClaimPoll ==
    \/ \E t \in Tasks : Claim(t)
    \/ Poll

SpecClaimPoll == Init /\ [][NextClaimPoll]_vars

\* One handler answering one request after the other, the clock standing still.
InitRound == InitWith(Limits(RoundReqs, 1, 0, 0, TRUE))

NextRound ==
    \/ \E t \in Tasks : Claim(t)
    \/ \E t \in Tasks : Release(t)

SpecRound == InitRound /\ [][NextRound]_vars

\* One handler answering one request after the other while the clock runs:
\* sessions of some length, released one after the other.
InitSaves == InitWith(Limits(SaveReqs, 1, MaxTime, 0, TRUE))

NextSaves ==
    \/ \E t \in Tasks : Claim(t)
    \/ \E t \in Tasks : Release(t)
    \/ Tick

SpecSaves == InitSaves /\ [][NextSaves]_vars

\* The poller beside claims, with room for a tick that lists two sessions.
InitSamples == InitWith(Limits(MaxReqs, NumTasks, 0, SampleHist, TRUE))

SpecSamples == InitSamples /\ [][NextClaimPoll]_vars

\* One handler answering claims, releases and queries one after the other,
\* beside the timeout checker and the clock.
InitQuery == InitWith(Limits(QueryReqs, 1, MaxTime, 0, TRUE))

NextQuery ==
    \/ \E t \in Tasks : Claim(t)
    \/ \E t \in Tasks : Release(t)
    \/ \E t \in Tasks : Query(t)
    \/ Sweep
    \/ Tick

SpecQuery == InitQuery /\ [][NextQuery]_vars

\* One handler answering claims and releases beside the poller and its
\* subscribers: two websockets, and room for two samples.  No store statement
\* fails and the clock stands still.
InitPublish ==
    InitWith([Limits(MaxReqs, 1, 0, SampleHist, FALSE) EXCEPT !.sockets = PublishSockets])

NextPublish ==
    \/ \E t \in Tasks : Claim(t)
    \/ \E t \in Tasks : Release(t)
    \/ Poll
    \/ Publish
    \/ \E w \in Sockets : Stream(w)

SpecPublish == InitPublish /\ [][NextPublish]_vars

\* One handler answering claims and releases one after the other, the clock
\* standing still, with snapshot queries that can fail.
InitSnapshot ==
    InitWith([Limits(MaxReqs, 1, 0, 0, TRUE) EXCEPT !.queries = TRUE])

SpecSnapshot == InitSnapshot /\ [][NextRound]_vars

\* A burst of claims: some slots hold a resident's active session and its lock,
\* and m claims without a save name by distinct users, none of whom has a
\* session, have all passed the existing-session check.  No store statement
\* fails.
ResidentSession(slot) ==
    [status |-> "active", username |-> Residents[slot + 1], slot |-> slot,
     started_at |-> 0, ended_at |-> NULL, final_score |-> NULL,
     save_loaded |-> NoSave, save_created |-> NoSave]

InitRace ==
    \E occupied \in SUBSET {s \in Slots : s < Len(Residents)} :
    \E m \in 1 .. NumTasks :
    \E who \in [1 .. m -> Users] :
        /\ m >= TOTAL_SLOTS - Cardinality(occupied)
        /\ \A a, b \in 1 .. m : a # b => who[a] # who[b]
        /\ lim = Limits(Len(Residents) + m, m, 0, 0, FALSE)
        /\ now = 0
        /\ sessions = [sid \in 1 .. (Len(Residents) + m) |->
                IF sid - 1 \in occupied THEN ResidentSession(sid - 1) ELSE NoSession]
        /\ users = [u \in AllUsers |->
                IF \E s \in occupied : Residents[s + 1] = u THEN NewUserRow
                ELSE NoUserRow]
        /\ saves = {}
        /\ files = {}
        /\ locks = [s \in Slots |->
                IF s \in occupied
                THEN [holder |-> Residents[s + 1], by |-> s + 1, expiry |-> LockExpiry]
                ELSE NoLock]
        /\ score_history = <<>>
        /\ snapshots = [sid \in 1 .. (Len(Residents) + m) |-> NoSnapshot]
        /\ tasks = [t \in Tasks |->
                IF t <= m
                THEN [IdleTask EXCEPT !.pc = "c_scan", !.op = "claim",
                          !.req = Len(Residents) + t, !.username = who[t]]
                ELSE IdleTask]
        /\ sweeper = IdleLoop
        /\ poller = IdleLoop
        /\ reqs = Len(Residents) + m
        /\ last = NoResponse
        /\ active_websockets = [sid \in 1 .. (Len(Residents) + m) |-> NoEntry]
        /\ streams = [w \in Sockets |-> IdleStream]
        /\ reporter = NoReporter
        /\ activity = NoActivity
        /\ score_reads = <<>>

NextRace ==
    \E t \in Tasks :
        \/ claim_scan(t)
        \/ claim_lock(t)
        \/ claim_user(t)
        \/ claim_insert(t)
        \/ claim_load(t)
        \/ claim_task(t)
        \/ claim_task_raised(t)

SpecRace == InitRace /\ [][NextRace]_vars

\* ------------------------------------------------------------------ reporter
\* The agent's side: reporter.py reads the agent's output line by line, and the
\* MCP tools call _post_activity.  Both POST to /api/session/<id>/events.
MaxLines == 3
MaxCalls == 1

\* The lines an agent prints, one for each branch of classify_line; " " is a
\* line of white space only.  Every line is shorter than the 200 characters
\* a summary keeps.
Lines ==
    {" ", "Read a.py", "mcp__fle__render", ">>> x", "Error: e", "[commit ab12]",
     "Result: 1", "hello"}

\* line.strip()
strip(line) == IF line = " " THEN "" ELSE line

classify_line(line) ==
    LET stripped == strip(line)
    IN  CASE stripped = "" -> [type |-> "system", summary |-> ""]
          [] stripped = "Read a.py" -> [type |-> "tool_use", summary |-> stripped]
          [] stripped = "mcp__fle__render" -> [type |-> "tool_use", summary |-> stripped]
          [] stripped = ">>> x" -> [type |-> "code_exec", summary |-> stripped]
          [] stripped = "Error: e" -> [type |-> "error", summary |-> stripped]
          [] stripped = "[commit ab12]" -> [type |-> "commit", summary |-> stripped]
          [] stripped = "Result: 1" -> [type |-> "output", summary |-> stripped]
          [] OTHER -> [type |-> "thinking", summary |-> stripped]

\* The event of the line read at position `at`: the position stands for the
\* timestamp, which tells two events of equal lines apart.
make_event(event_type, summary, at) ==
    [type |-> event_type, timestamp |-> at, summary |-> summary]

\* urlopen answers, or raises (URLError, HTTPError, a timeout).
PostOutcomes == {"ok", "raised"}

\* A batch taken without clearing the buffer.
take_batch_keeping(buffer) == [batch |-> buffer, buffer |-> buffer]

\* with lock: batch = list(buffer); buffer.clear()
take_batch(buffer) == [batch |-> buffer, buffer |-> <<>>]

\* flush_events without `except Exception: pass`.
flush_events_uncaught(events, outcome) ==
    IF events = <<>>
    THEN [requests |-> <<>>, raised |-> FALSE]
    ELSE [requests |-> <<[events |-> events, outcome |-> outcome]>>,
          raised |-> outcome = "raised"]

\* flush_events: the requests it makes and whether it raises.
flush_events(events, outcome) ==
    IF events = <<>>
    THEN [requests |-> <<>>, raised |-> FALSE]
    ELSE [requests |-> <<[events |-> events, outcome |-> outcome]>>,
          raised |-> FALSE]

ReporterRuns == reporter.main \in {"loop", "line", "final", "post"}

\* for line in sys.stdin: sys.stdout.write(line); sys.stdout.flush()
main_write ==
    /\ reporter.main = "loop"
    /\ reporter.read < Len(reporter.stdin)
    /\ reporter' = [reporter EXCEPT
            !.read = @ + 1,
            !.stdout = Append(@, reporter.stdin[reporter.read + 1]),
            !.main = "line"]
    /\ UNCHANGED <<now, sessions, users, saves, files, locks, score_history,
                   snapshots, tasks, sweeper, poller, reqs, last, lim,
                   active_websockets, streams, score_reads, activity>>

\* classify_line, `if not summary: continue`, make_event and the append.
main_append ==
    /\ reporter.main = "line"
    /\ LET c == classify_line(reporter.stdin[reporter.read])
       IN  reporter' = [reporter EXCEPT
                !.buffer = IF c.summary = "" THEN @
                           ELSE Append(@, make_event(c.type, c.summary, reporter.read)),
                !.main = "loop"]
    /\ UNCHANGED <<now, sessions, users, saves, files, locks, score_history,
                   snapshots, tasks, sweeper, poller, reqs, last, lim,
                   active_websockets, streams, score_reads, activity>>

\* The end of stdin ends the loop.
main_eof ==
    /\ reporter.main = "loop"
    /\ reporter.read = Len(reporter.stdin)
    /\ reporter' = [reporter EXCEPT !.main = "final"]
    /\ UNCHANGED <<now, sessions, users, saves, files, locks, score_history,
                   snapshots, tasks, sweeper, poller, reqs, last, lim,
                   active_websockets, streams, score_reads, activity>>

\* KeyboardInterrupt: caught inside the loop, where it leads to the final
\* flush; raised during the final flush it leaves main().
main_interrupt ==
    /\ ReporterRuns
    /\ reporter' = [reporter EXCEPT
            !.main = IF @ \in {"loop", "line"} THEN "final" ELSE "interrupted"]
    /\ UNCHANGED <<now, sessions, users, saves, files, locks, score_history,
                   snapshots, tasks, sweeper, poller, reqs, last, lim,
                   active_websockets, streams, score_reads, activity>>

\* finally: with lock: batch = list(buffer); buffer.clear()
main_final_take ==
    /\ reporter.main = "final"
    /\ reporter' = [reporter EXCEPT
            !.batch = take_batch(reporter.buffer).batch,
            !.buffer = take_batch(reporter.buffer).buffer,
            !.main = "post"]
    /\ UNCHANGED <<now, sessions, users, saves, files, locks, score_history,
                   snapshots, tasks, sweeper, poller, reqs, last, lim,
                   active_websockets, streams, score_reads, activity>>

\* finally: flush_events(batch, ...), and main() returns.
main_final_flush ==
    /\ reporter.main = "post"
    /\ \E outcome \in PostOutcomes :
        LET f == flush_events(reporter.batch, outcome)
        IN  reporter' = [reporter EXCEPT
                !.posted = @ \o f.requests,
                !.batch = <<>>,
                !.main = IF f.raised THEN "raised" ELSE "exited"]
    /\ UNCHANGED <<now, sessions, users, saves, files, locks, score_history,
                   snapshots, tasks, sweeper, poller, reqs, last, lim,
                   active_websockets, streams, score_reads, activity>>

Main ==
    \/ main_write
    \/ main_append
    \/ main_eof
    \/ main_interrupt
    \/ main_final_take
    \/ main_final_flush

\* flusher: time.sleep(flush_interval); with lock: batch = list(buffer);
\* buffer.clear().  The thread is a daemon: it ends with main().
flusher_take ==
    /\ ReporterRuns
    /\ reporter.flusher = "sleep"
    /\ reporter' = [reporter EXCEPT
            !.flusher_batch = take_batch(reporter.buffer).batch,
            !.buffer = take_batch(reporter.buffer).buffer,
            !.flusher = "post"]
    /\ UNCHANGED <<now, sessions, users, saves, files, locks, score_history,
                   snapshots, tasks, sweeper, poller, reqs, last, lim,
                   active_websockets, streams, score_reads, activity>>

\* flusher: flush_events(batch, ...), outside the lock.
flusher_flush ==
    /\ ReporterRuns
    /\ reporter.flusher = "post"
    /\ \E outcome \in PostOutcomes :
        LET f == flush_events(reporter.flusher_batch, outcome)
        IN  reporter' = [reporter EXCEPT
                !.posted = @ \o f.requests,
                !.flusher_batch = <<>>,
                !.flusher = IF f.raised THEN "raised" ELSE "sleep"]
    /\ UNCHANGED <<now, sessions, users, saves, files, locks, score_history,
                   snapshots, tasks, sweeper, poller, reqs, last, lim,
                   active_websockets, streams, score_reads, activity>>

Flusher == flusher_take \/ flusher_flush

\* os.environ.get(...): unset, empty, or a value.
Unset == "<unset>"
BrokerUrls == {Unset, "", "http://broker:8080"}
SessionIdValues == {Unset, "", "sid"}

\* _post_activity(events) of an MCP tool.
post_activity ==
    /\ activity.calls < MaxCalls
    /\ \E broker_url \in BrokerUrls, session_id \in SessionIdValues,
          outcome \in PostOutcomes :
        activity' =
            IF broker_url \in {Unset, ""} \/ session_id \in {Unset, ""}
            THEN [activity EXCEPT !.calls = @ + 1, !.returned = "unset"]
            ELSE [calls |-> activity.calls + 1,
                  requests |-> Append(activity.requests,
                      [broker_url |-> broker_url, session_id |-> session_id,
                       outcome |-> outcome]),
                  returned |-> "sent",
                  raised |-> FALSE]
    /\ UNCHANGED <<now, sessions, users, saves, files, locks, score_history,
                   snapshots, tasks, sweeper, poller, reqs, last, lim,
                   active_websockets, streams, score_reads, reporter>>

\* The reporter after flush_thread.start(), in front of any output of the agent.
InitReporter ==
    /\ lim = Limits(0, 0, 0, 0, FALSE)
    /\ now = 0
    /\ sessions = [sid \in 1 .. 0 |-> NoSession]
    /\ users = [u \in AllUsers |-> NoUserRow]
    /\ saves = {}
    /\ files = {}
    /\ locks = [s \in Slots |-> NoLock]
    /\ score_history = <<>>
    /\ snapshots = [sid \in 1 .. 0 |-> NoSnapshot]
    /\ tasks = [t \in Tasks |-> IdleTask]
    /\ sweeper = IdleLoop
    /\ poller = IdleLoop
    /\ reqs = 0
    /\ last = NoResponse
    /\ active_websockets = [sid \in 1 .. 0 |-> NoEntry]
    /\ streams = [w \in Sockets |-> IdleStream]
    /\ \E stdin \in [1 .. MaxLines -> Lines] :
        reporter = [NoReporter EXCEPT !.stdin = stdin, !.main = "loop",
                                      !.flusher = "sleep"]
    /\ activity = NoActivity
    /\ score_reads = <<>>

InitScore == InitWith(Limits(0, 0, 0, 0, FALSE))

SpecScore == InitScore /\ [][score_read]_vars

NextReporter == Main \/ Flusher \/ post_activity

SpecReporter == InitReporter /\ [][NextReporter]_vars

\* ------------------------------------------------------------------ claims
Terminal == {"completed", "expired"}

\* The request that arrives in this step, if one does: it is answered at once
\* (kept in last') or taken by a handler.
Arriving ==
    IF last'.req = reqs + 1 THEN last'
    ELSE tasks'[CHOOSE t \in Tasks : tasks'[t].req = reqs + 1]

\* C1: no slot is referenced by two session rows that are both 'active'.
C1_OneActivePerSlot ==
    \A a, b \in SessionIds :
        (a # b /\ sessions[a].status = "active" /\ sessions[b].status = "active")
            => sessions[a].slot # sessions[b].slot

\* In a burst: the sessions the claims created, the slots that were free when
\* the burst arrived, and the end of the burst (every claim answered).
RaceSuccesses ==
    {sid \in SessionIds : sessions[sid].username \in Users /\ sessions[sid].status = "active"}

RaceFree ==
    TOTAL_SLOTS - Cardinality({sid \in SessionIds :
        \E i \in 1 .. Len(Residents) : sessions[sid].username = Residents[i]})

RaceOver == \A t \in Tasks : tasks[t].pc = "idle"

C3_OneActivePerUser ==
    \A a, b \in SessionIds :
        (a # b /\ sessions[a].status = "active" /\ sessions[b].status = "active")
            => sessions[a].username # sessions[b].username

\* C4: a claim by a user who has an active session when the existing-session
\* check runs is answered 409 in that step, and the step changes no lock, no
\* session row, no user row and no save.
C4_ConflictChangesNothing ==
    [][(/\ reqs' = reqs + 1
        /\ Arriving.op = "claim"
        /\ \E sid \in SessionIds :
                /\ sessions[sid].username = Arriving.username
                /\ sessions[sid].status = "active")
       => (/\ last'.req = reqs + 1
           /\ last'.resp = 409
           /\ tasks' = tasks
           /\ UNCHANGED <<sessions, users, locks, saves, files>>)]_vars

\* A claim of a user with an active session was answered 409.
C4_Witness ==
    /\ last.op = "claim"
    /\ last.resp = 409
    /\ \E sid \in SessionIds :
            sessions[sid].username = last.username /\ sessions[sid].status = "active"

\* C5: a release of a session id that has no row, or whose row is 'completed'
\* or 'expired', is answered 404 in that step, and the step changes no session
\* row, user row, save, file, lock, snapshot or score sample, nor the subscriber
\* map.
C5_ReleaseOfNonActiveChangesNothing ==
    [][(/\ reqs' = reqs + 1
        /\ Arriving.op = "release"
        /\ \/ Arriving.sid \notin SessionIds
           \/ sessions[Arriving.sid].status \in Terminal \cup {"none"})
       => (/\ last'.req = reqs + 1
           /\ last'.resp = 404
           /\ tasks' = tasks
           /\ UNCHANGED <<sessions, users, saves, files, locks, snapshots,
                          score_history, active_websockets>>)]_vars

\* A release of a terminal session that has subscribers was answered 404.
C5_Witness ==
    /\ last.op = "release"
    /\ last.resp = 404
    /\ last.sid \in SessionIds
    /\ sessions[last.sid].status \in Terminal
    /\ active_websockets[last.sid].sockets # <<>>

\* C6: once a session row is 'completed' or 'expired', its status, ended_at and
\* final_score never change again.
C6_TerminalIsFinal ==
    [][\A sid \in SessionIds :
        sessions[sid].status \in Terminal
            => /\ sessions'[sid].status = sessions[sid].status
               /\ sessions'[sid].ended_at = sessions[sid].ended_at
               /\ sessions'[sid].final_score = sessions[sid].final_score]_vars

\* C7: a release that found its session active returns with the session
\* 'completed' and the slot lock released, whatever the game answered.
C7_ReleaseAlwaysCompletes ==
    [][\A t \in Tasks :
        (tasks[t].op = "release" /\ tasks'[t].pc = "idle")
            => /\ sessions'[tasks[t].sid].status = "completed"
               /\ locks'[tasks[t].slot] = NoLock]_vars

C9_MissingSaveLeavesNothing ==
    [][\A t \in Tasks :
        (tasks[t].op = "claim" /\ tasks[t].missing /\ tasks'[t].pc = "idle")
            => /\ last'.resp = 404
               /\ sessions'[tasks[t].sid].status = "none"
               /\ \A slot \in Slots : locks'[slot].by # tasks[t].req]_vars

\* C10: after a release with save name s1 has completed a user's session
\* (saved_as = s1), a later claim by that user with save name s1 that is not
\* refused for a conflict, a full pool or a store failure succeeds: it is not
\* answered 404, and its session is active with save_loaded = s1.
C10_SavedGameLoads ==
    [][(/\ last'.req # last.req
        /\ last'.op = "claim"
        /\ last'.save_name = UserSave(1)
        /\ last'.resp \notin {409, 503, 500}
        /\ \E sid \in SessionIds :
                /\ sessions[sid].username = last'.username
                /\ sessions[sid].status = "completed"
                /\ sessions[sid].save_created = UserSave(1))
       => (/\ last'.resp = 200
           /\ sessions'[last'.sid].status = "active"
           /\ sessions'[last'.sid].save_loaded = UserSave(1))]_vars

\* The sessions of a user that a release with the save name has completed, the
\* sum of their playtimes, and the last of them.
SavedSessions(username, save_name) ==
    {sid \in SessionIds :
        /\ sessions[sid].username = username
        /\ sessions[sid].status = "completed"
        /\ sessions[sid].save_created = save_name}

RECURSIVE SumOfPlaytimes(_)
SumOfPlaytimes(S) ==
    IF S = {} THEN 0
    ELSE LET sid == CHOOSE x \in S : TRUE
         IN  (sessions[sid].ended_at - sessions[sid].started_at)
                + SumOfPlaytimes(S \ {sid})

LatestOf(S) ==
    CHOOSE sid \in S : \A other \in S :
        /\ sessions[other].ended_at <= sessions[sid].ended_at
        /\ sessions[other].ended_at = sessions[sid].ended_at => other <= sid

\* C11: releases of one user under one save name, one after the other, keep one
\* save row for (username, save name); between requests its score_at_save is
\* the final score of the last such release and its playtime_seconds the sum of
\* the playtimes of all of them.
C11_SaveUpsertAccumulates ==
    \A username \in Users, save_name \in SaveNameInputs \ {NoSave} :
        /\ Cardinality({row \in saves : row.username = username
                                        /\ row.save_name = save_name}) <= 1
        /\ (Quiet /\ SavedSessions(username, save_name) # {}) =>
            \E row \in saves :
                /\ row.username = username
                /\ row.save_name = save_name
                /\ row.score_at_save =
                       sessions[LatestOf(SavedSessions(username, save_name))].final_score
                /\ row.playtime_seconds = SumOfPlaytimes(SavedSessions(username, save_name))

\* Two sessions of a user, each one budget long, were released under one name.
C11_Witness ==
    /\ Quiet
    /\ \E username \in Users :
        /\ Cardinality(SavedSessions(username, UserSave(1))) = 2
        /\ \A sid \in SavedSessions(username, UserSave(1)) :
                sessions[sid].ended_at - sessions[sid].started_at = 1
        /\ \E row \in saves :
                /\ row.username = username
                /\ row.save_name = UserSave(1)
                /\ row.playtime_seconds = 2

\* C12 as stated: a user's best_score never decreases, and in every state a
\* terminal session's final_score is at most its user's best_score.
C12_BestScoreCoversTerminal ==
    /\ [][\A u \in AllUsers : users'[u].best_score >= users[u].best_score]_vars
    /\ [](\A sid \in SessionIds :
            sessions[sid].status \in Terminal =>
                users[sessions[sid].username].best_score >= sessions[sid].final_score)

\* A termination of the session has written the session row and not yet the
\* user row (UPDATE sessions and UPDATE users are two statements).
BetweenUpdates(sid) ==
    \/ \E t \in Tasks : tasks[t].pc = "r_user" /\ tasks[t].sid = sid
    \/ sweeper.pc = "s_user" /\ Head(sweeper.queue).session_id = sid

\* C12, amended: a user's best_score never decreases, and a terminal session's
\* final_score is at most its user's best_score except while a termination of
\* that session is between its UPDATE sessions and its UPDATE users.
C12_BestScoreMonotone ==
    /\ [][\A u \in AllUsers : users'[u].best_score >= users[u].best_score]_vars
    /\ [](\A sid \in SessionIds :
            (sessions[sid].status \in Terminal /\ ~BetweenUpdates(sid)) =>
                users[sessions[sid].username].best_score >= sessions[sid].final_score)

\* A session ended with a score above 0 and its user's best_score has it.
C12_Witness ==
    \E sid \in SessionIds :
        /\ sessions[sid].status \in Terminal
        /\ ~BetweenUpdates(sid)
        /\ sessions[sid].final_score > 0
        /\ users[sessions[sid].username].best_score = sessions[sid].final_score

\* C13: a poller step for a listed session whose row is there appends one
\* sample for that session, whatever the score read came to; and a sample whose
\* score read failed (exception, empty or unparseable reply) has score 0.
C13_FailedReadGivesZeroSample ==
    /\ [][(/\ poller.pc = "p_insert"
           /\ poller' # poller
           /\ sessions[Head(poller.queue).session_id].status # "none")
          => (/\ Len(score_history') = Len(score_history) + 1
              /\ score_history'[Len(score_history')].session_id
                    = Head(poller.queue).session_id
              /\ score_history'[Len(score_history')].recorded_at = now
              /\ \A i \in 1 .. Len(score_history) :
                    score_history'[i] = score_history[i])]_vars
    /\ [](\A i \in 1 .. Len(score_history) :
            score_history[i].rcon = "failed" => score_history[i].score = 0)

\* A sample of an active session whose score read failed is in the table.
C13_Witness ==
    \E i \in 1 .. Len(score_history) :
        /\ score_history[i].rcon = "failed"
        /\ score_history[i].score = 0
        /\ sessions[score_history[i].session_id].status = "active"

\* C14: a tick of the poller appends a sample for every session it listed that
\* is active when the tick ends (one sample per tick for a session that stays
\* active), and no sample already in score_history is changed or removed.
C14_OneSamplePerTick ==
    /\ [][\A i \in 1 .. Len(score_history) :
            /\ Len(score_history') >= Len(score_history)
            /\ score_history'[i] = score_history[i]]_vars
    /\ [][(poller.pc = "p_insert" /\ poller'.pc = "idle") =>
            \A i \in 1 .. Len(poller.queue) :
                sessions[poller.queue[i].session_id].status = "active" =>
                    /\ Len(score_history') = Len(score_history) + 1
                    /\ score_history'[Len(score_history')].session_id
                            = poller.queue[i].session_id]_vars

\* C15: the slot a claim's scan hands it is the lowest slot of 0..N-1 that no
\* active session references when the scan runs (slot 0 when none is active);
\* the claim keeps that slot, and the session it inserts is on it.
C15_LowestFreeSlot ==
    [][\A t \in Tasks :
        /\ (tasks[t].pc = "c_scan" /\ tasks'[t].pc = "c_lock") =>
            /\ tasks'[t].slot \in Slots
            /\ \A sid \in SessionIds :
                    sessions[sid].status = "active" => sessions[sid].slot # tasks'[t].slot
            /\ \A lower \in Slots : lower < tasks'[t].slot =>
                    \E sid \in SessionIds :
                        sessions[sid].status = "active" /\ sessions[sid].slot = lower
            /\ (\A sid \in SessionIds : sessions[sid].status # "active")
                    => tasks'[t].slot = 0
        /\ (tasks[t].pc \in {"c_lock", "c_user", "c_insert", "c_load"}
                /\ tasks'[t].pc # "idle") => tasks'[t].slot = tasks[t].slot
        /\ (tasks[t].pc = "c_insert" /\ tasks'[t].pc = "c_load") =>
            /\ sessions'[tasks[t].req].status = "active"
            /\ sessions'[tasks[t].req].slot = tasks[t].slot]_vars

\* A claim succeeded on slot 1 while the session on slot 0 was active.
C15_Witness ==
    /\ last.op = "claim"
    /\ last.resp = 200
    /\ sessions[last.sid].status = "active"
    /\ sessions[last.sid].slot = 1
    /\ \E sid \in SessionIds :
            sessions[sid].status = "active" /\ sessions[sid].slot = 0

\* C16: when the scan of a claim finds every slot of 0..N-1 referenced by an
\* active session, the claim is answered 503 in that step, and the step sets
\* no lock, creates no user row and inserts no session row.
C16_FullPoolIsUnavailable ==
    [][\A t \in Tasks :
        (/\ tasks[t].pc = "c_scan"
         /\ tasks'[t] # tasks[t]
         /\ \A slot \in Slots : \E sid \in SessionIds :
                sessions[sid].status = "active" /\ sessions[sid].slot = slot)
        => (/\ tasks'[t].pc = "idle"
            /\ last'.req = tasks[t].req
            /\ last'.resp = 503
            /\ UNCHANGED <<locks, users, sessions>>)]_vars

\* Every slot held a resident's session and the last claim was answered 503,
\* its user still without a row.
C16_Witness ==
    /\ RaceFree = 0
    /\ RaceOver
    /\ last.op = "claim"
    /\ last.resp = 503
    /\ ~users[last.username].exists
    /\ sessions[last.req].status = "none"

\* C17: a query of a section is answered 404 exactly when the session id has
\* no row, with the live RCON read exactly when the row is 'active', with the
\* stored snapshot section when the row is terminal and has a snapshot, and
\* with the "No snapshot available" note when it is terminal and has none.
C17_QueryLiveOrSnapshot ==
    [][(last'.req # last.req /\ last'.op = "query") =>
        LET sid == last'.sid
            known == sid \in SessionIds /\ sessions[sid].status # "none"
        IN  /\ last'.resp = IF known THEN 200 ELSE 404
            /\ ~known => last'.body = "none"
            /\ known => last'.body =
                    CASE sessions[sid].status = "active" -> "live"
                      [] sessions[sid].status # "active" /\ snapshots[sid].exists
                            -> "snapshot"
                      [] OTHER -> "unavailable"]_vars

\* A query of an expired session, which has no snapshot, got the note.
C17_Witness ==
    /\ last.op = "query"
    /\ last.resp = 200
    /\ last.body = "unavailable"
    /\ sessions[last.sid].status = "expired"
    /\ ~snapshots[last.sid].exists

\* C18: a stream opened for a session id that has no row, or whose row is not
\* 'active', is closed with code 4004 in the step that reads the status; that
\* step leaves the subscriber map as it is, and the websocket is in no list of
\* the map afterwards.
C18_InactiveStreamClosed4004 ==
    /\ [][\A w \in Sockets :
            (/\ streams[w].pc = "idle"
             /\ streams'[w].pc # "idle"
             /\ \/ streams'[w].sid \notin SessionIds
                \/ sessions[streams'[w].sid].status # "active")
            => (/\ streams'[w].pc = "closed"
                /\ streams'[w].code = 4004
                /\ active_websockets' = active_websockets)]_vars
    /\ [](\A w \in Sockets : streams[w].code = 4004 =>
            \A sid \in SessionIds :
                \A i \in 1 .. Len(active_websockets[sid].sockets) :
                    active_websockets[sid].sockets[i] # w)

\* A stream for a terminal session was closed with 4004.
C18_Witness ==
    \E w \in Sockets :
        /\ streams[w].pc = "closed"
        /\ streams[w].code = 4004
        /\ streams[w].sid \in SessionIds
        /\ sessions[streams[w].sid].status \in Terminal

\* C19: a termination transition that runs its UPDATE sessions (a release, or
\* the timeout checker) does not find the session terminal already: no second
\* termination of a session writes the terminal row, the user aggregates and
\* the lock.
C19_SingleTermination ==
    [][/\ \A t \in Tasks :
            (tasks[t].pc = "r_update" /\ tasks'[t].pc = "r_user")
                => sessions[tasks[t].sid].status \notin Terminal
       /\ (sweeper.pc = "s_update" /\ sweeper'.pc = "s_user")
                => sessions[Head(sweeper.queue).session_id].status \notin Terminal]_vars

\* C20: the lock a claim set on a slot goes away only by its expiry, by a step
\* of that claim (its rollback), or by the termination (release or timeout) of
\* the session that claim created.
C20_LockDeletedByOwnerOnly ==
    [][\A slot \in Slots :
        (locks[slot] # NoLock /\ locks'[slot] = NoLock) =>
            \/ now' # now
            \/ \E t \in Tasks :
                /\ tasks'[t] # tasks[t]
                /\ tasks[t].op = "claim"
                /\ tasks[t].req = locks[slot].by
            \/ \E t \in Tasks :
                /\ tasks'[t] # tasks[t]
                /\ tasks[t].op = "release"
                /\ tasks[t].sid = locks[slot].by
            \/ /\ sweeper' # sweeper
               /\ sweeper.pc = "s_unlock"
               /\ Head(sweeper.queue).session_id = locks[slot].by]_vars

\* C21: when the INSERT of the user row or of the session row fails after the
\* claim has set its slot lock, the claim goes to its exception handler with the
\* lock still set, and the handler answers 500, leaves no lock on the slot and
\* no session row of the claim.
C21_FailedInsertReleasesLock ==
    [][\A t \in Tasks :
        /\ (tasks[t].pc \in {"c_user", "c_insert"} /\ tasks'[t].pc = "c_exc") =>
            /\ tasks'[t].slot = tasks[t].slot
            /\ ~tasks'[t].missing
            /\ UNCHANGED <<sessions, locks>>
        /\ (tasks[t].pc = "c_exc" /\ ~tasks[t].missing /\ tasks'[t] # tasks[t]) =>
            /\ tasks'[t].pc = "idle"
            /\ last'.req = tasks[t].req
            /\ last'.resp = 500
            /\ locks'[tasks[t].slot] = NoLock
            /\ sessions'[tasks[t].req].status = "none"]_vars

\* A claim whose INSERT failed was answered 500; it has no session row and no
\* slot is locked.
C21_Witness ==
    /\ last.op = "claim"
    /\ last.resp = 500
    /\ ~last.missing
    /\ sessions[last.req].status = "none"
    /\ \A slot \in Slots : locks[slot] = NoLock

\* C22: when load_save_to_slot raises for a claim that named a save, the claim
\* is rolled back: once the failure has left the task the claim's session row
\* is deleted and no slot lock of the claim is held.
C22_FailedLoadRollsBack ==
    [][\A t \in Tasks :
        (/\ tasks[t].pc = "c_task_raised"
         /\ tasks[t].save_name # NoSave
         /\ tasks'[t].pc = "idle")
        => (/\ sessions'[tasks[t].sid].status = "none"
            /\ \A slot \in Slots : locks'[slot].by # tasks[t].req)]_vars

\* C23: when the autosave of a listed session fails, the timeout checker goes
\* on in the same tick: it writes the session 'expired' with ended_at and the
\* final score it read, adds the score and the playtime to the user's
\* aggregates, deletes the slot lock, and turns to the next listed session,
\* whose row is there to be processed.
C23_FailedAutosaveStillExpires ==
    /\ [][/\ (/\ sweeper.pc = "s_row"
              /\ sweeper' # sweeper
              /\ sessions[Head(sweeper.queue).session_id].status # "none"
              /\ sweeper'.pc # "s_save")
            => (/\ sweeper'.pc = "s_update"
                /\ sweeper'.autosave = "failed"
                /\ sweeper'.queue = sweeper.queue)
          /\ (sweeper.autosave = "failed" /\ sweeper' # sweeper) =>
                LET session == Head(sweeper.queue)
                IN  /\ now' = now
                    /\ sweeper.pc = "s_update" =>
                        /\ sessions'[session.session_id].status = "expired"
                        /\ sessions'[session.session_id].ended_at = now
                        /\ sessions'[session.session_id].final_score = sweeper.final_score
                        /\ sweeper' = [sweeper EXCEPT !.pc = "s_user"]
                    /\ sweeper.pc = "s_user" =>
                        /\ users'[session.username].best_score
                                = Max(users[session.username].best_score, sweeper.final_score)
                        /\ users'[session.username].total_playtime_seconds
                                = users[session.username].total_playtime_seconds
                                    + sweeper.playtime
                        /\ sweeper' = [sweeper EXCEPT !.pc = "s_unlock"]
                    /\ sweeper.pc = "s_unlock" =>
                        /\ locks'[session.slot] = NoLock
                        /\ IF Len(sweeper.queue) > 1
                           THEN /\ sweeper'.pc = "s_row"
                                /\ sweeper'.queue = Tail(sweeper.queue)
                           ELSE sweeper'.pc = "idle"]_vars
    /\ [](sweeper.pc = "s_row" =>
            sessions[Head(sweeper.queue).session_id].status # "none")

\* Two sessions of two users were expired in one tick; the first has no
\* autosave, its user's playtime was counted and no lock is left on either slot.
C23_Witness ==
    \E a, b \in SessionIds :
        /\ sessions[a].status = "expired"
        /\ sessions[b].status = "expired"
        /\ sessions[a].username # sessions[b].username
        /\ sessions[a].ended_at = sessions[b].ended_at
        /\ \A row \in saves : row.username # sessions[a].username
        /\ \E row \in saves : row.username = sessions[b].username
        /\ users[sessions[a].username].total_playtime_seconds > 0
        /\ locks[sessions[a].slot] = NoLock
        /\ locks[sessions[b].slot] = NoLock
        /\ sweeper.pc = "idle"

\* C24: with no handler and no loop between two of its steps, a user's
\* total_playtime_seconds is the sum of the playtimes of that user's terminal
\* sessions: each terminated session is counted once.
C24_PlaytimeCountedOnce ==
    Quiet =>
        \A username \in Users :
            users[username].total_playtime_seconds =
                SumOfPlaytimes({sid \in SessionIds :
                    /\ sessions[sid].username = username
                    /\ sessions[sid].status \in Terminal})

\* C25: a tick of the poller ends only behind the last session it listed: a
\* failure while one listed session is processed does not keep the sessions
\* listed after it from their sample and their publish.
C25_TickReachesEveryListed ==
    [][(poller.pc # "idle" /\ poller'.pc = "idle") => Len(poller.queue) = 1]_vars

\* C26: when a publish for a session ends, every websocket that was in the
\* session's list when the publish began and is in it still has had its send,
\* whatever other websockets left the list while the publish was suspended.
C26_PublishReachesEverySubscriber ==
    [][(poller.pc = "p_send" /\ poller'.pc # "p_send") =>
        \A w \in Range(poller.listed) :
            w \in Range(active_websockets[Head(poller.queue).session_id].sockets)
                => w \in poller.delivered \cup poller.failed \cup {poller.ws}]_vars

\* C27: a websocket whose send raised during a publish is no longer in the
\* session's list when that publish ends, so that no later publish sends to it.
C27_UnreachableObserverRemoved ==
    [][(poller.pc = "p_send" /\ poller'.pc # "p_send") =>
        \A w \in poller.failed :
            w \notin Range(active_websockets'[Head(poller.queue).session_id].sockets)]_vars

\* C28: a session that is 'completed' or 'expired', with no release of it and
\* no expiry of it under way, has no websocket in active_websockets.
C28_TerminalHasNoSubscribers ==
    \A sid \in SessionIds :
        (/\ sessions[sid].status \in Terminal
         /\ \A t \in Tasks : ~(tasks[t].op = "release" /\ tasks[t].sid = sid)
         /\ ~(sweeper.pc # "idle" /\ Head(sweeper.queue).session_id = sid))
        => active_websockets[sid].sockets = <<>>

\* C29: when the timeout checker has finished expiring a session (its lock
\* release is its last step), a snapshot row of that session is in the store,
\* as after a release.
C29_ExpiryStoresSnapshot ==
    [][(sweeper.pc = "s_unlock" /\ sweeper' # sweeper) =>
        snapshots'[Head(sweeper.queue).session_id].exists]_vars

\* C30: every session row is 'active' exactly when its ended_at is null and
\* exactly when its final_score is null, and a write that changes one of
\* status, ended_at and final_score of a row that stays in the table sets all
\* three.
C30_TerminalFieldsSetTogether ==
    /\ [](\A sid \in SessionIds :
            sessions[sid].status # "none" =>
                /\ (sessions[sid].status = "active") = (sessions[sid].ended_at = NULL)
                /\ (sessions[sid].status = "active") = (sessions[sid].final_score = NULL))
    /\ [][\A sid \in SessionIds :
            (sessions[sid].status = "active" /\ sessions'[sid].status \in Terminal)
                => /\ sessions'[sid].ended_at # NULL
                   /\ sessions'[sid].final_score # NULL]_vars

\* C31: the timeout checker's UPDATE that sets a session 'expired' finds the
\* session 'active' when it runs, with a started_at older than now minus the
\* budget: it writes to no younger session and to no terminal one.
C31_ExpiresOnlyActiveOverBudget ==
    [][(sweeper.pc = "s_update" /\ sweeper'.pc = "s_user") =>
        LET sid == Head(sweeper.queue).session_id
        IN  /\ sessions[sid].status = "active"
            /\ sessions[sid].started_at < now - SessionBudget]_vars

\* A termination of a session on the slot is under way: a release between its
\* SELECT and its lock release, or the timeout checker at a listed session.
Terminating(slot) ==
    \/ \E t \in Tasks : tasks[t].op = "release" /\ tasks[t].slot = slot
    \/ sweeper.pc \in {"s_row", "s_save", "s_update", "s_user", "s_unlock"}
        /\ Head(sweeper.queue).slot = slot

\* C32: a termination deletes the slot lock only with its session row terminal
\* and after its UPDATE users, and no claim sets the lock of a slot while a
\* termination of a session on that slot is under way.
C32_NoClaimDuringTermination ==
    [][/\ \A t \in Tasks :
            (tasks[t].op = "release" /\ locks'[tasks[t].slot] # locks[tasks[t].slot]
                    /\ tasks'[t] # tasks[t])
                => (tasks[t].pc = "r_unlock" /\ sessions[tasks[t].sid].status # "active")
       /\ (sweeper' # sweeper /\ locks' # locks)
                => (/\ sweeper.pc = "s_unlock"
                    /\ sessions[Head(sweeper.queue).session_id].status # "active")
       /\ \A t \in Tasks :
            (tasks[t].pc = "c_lock" /\ tasks'[t].pc = "c_user")
                => ~Terminating(tasks[t].slot)]_vars

\* C33: a claim that finds the lock of its candidate slot held is answered 503
\* in that step, and the step changes no lock (the key and its value stay), no
\* user row and no session row.
C33_HeldLockIsUnavailable ==
    [][\A t \in Tasks :
        (/\ tasks[t].pc = "c_lock"
         /\ tasks'[t] # tasks[t]
         /\ locks[tasks[t].slot] # NoLock)
        => (/\ tasks'[t].pc = "idle"
            /\ last'.req = tasks[t].req
            /\ last'.resp = 503
            /\ UNCHANGED <<locks, users, sessions>>)]_vars

\* A claim was answered 503 while free slots were left: another claim holds the
\* lock, and the refused claim left no user row and no session row.
C33_Witness ==
    /\ last.op = "claim"
    /\ last.resp = 503
    /\ get_free_slot # NoSlot
    /\ ~users[last.username].exists
    /\ sessions[last.req].status = "none"
    /\ \E slot \in Slots : locks[slot] # NoLock /\ locks[slot].by # last.req

\* C34: a release without a save name never reaches the save (no save command,
\* no file, no save row created or changed by its steps); its UPDATE writes the
\* session row, if it is still there, 'completed' with save_created null; and
\* its last step deletes the slot lock and answers 200 with saved_as null.
C34_ReleaseWithoutSaveName ==
    [][\A t \in Tasks :
        (/\ tasks[t].op = "release"
         /\ tasks[t].save_name = NoSave
         /\ tasks'[t] # tasks[t])
        => (/\ UNCHANGED <<saves, files>>
            /\ tasks'[t].pc \in {"r_update", "r_user", "r_unlock", "idle"}
            /\ tasks[t].pc = "r_snap" => tasks'[t].pc = "r_update"
            /\ (tasks[t].pc = "r_update" /\ sessions[tasks[t].sid].status # "none") =>
                /\ sessions'[tasks[t].sid].status = "completed"
                /\ sessions'[tasks[t].sid].save_created = NoSave
            /\ tasks[t].pc = "r_unlock" =>
                /\ locks'[tasks[t].slot] = NoLock
                /\ last'.req = tasks[t].req
                /\ last'.resp = 200
                /\ last'.save_name = NoSave)]_vars

\* A release without a save name was answered 200: its session is 'completed'
\* with save_created null, no save row is there and the slot is not locked.
C34_Witness ==
    /\ last.op = "release"
    /\ last.resp = 200
    /\ last.save_name = NoSave
    /\ sessions[last.sid].status = "completed"
    /\ sessions[last.sid].save_created = NoSave
    /\ saves = {}
    /\ locks[sessions[last.sid].slot] = NoLock

\* C35: in a stored snapshot row, a section whose query failed holds an error
\* marker, and a section whose query went through holds what was captured.
C35_FailedQueryIsMarked ==
    \A sid \in SessionIds :
        snapshots[sid].exists =>
            \A section \in Sections :
                /\ snapshots[sid].queried[section] = "ok"
                        => snapshots[sid].data[section] = "captured"
                /\ snapshots[sid].queried[section] # "ok"
                        => snapshots[sid].data[section] \in {"defaults+error", "error"}

\* C36: with no handler and no loop between two of its steps, every 'active'
\* session's slot has its lock held, and the lock's value is the session's
\* username.
C36_ActiveSlotIsLocked ==
    Quiet =>
        \A sid \in SessionIds :
            sessions[sid].status = "active" =>
                /\ locks[sessions[sid].slot] # NoLock
                /\ locks[sessions[sid].slot].holder = sessions[sid].username

\* C37: in the activity reporter no event is in two POSTed batches, or twice
\* in one, whatever the interleaving of the main thread, the flusher thread
\* and the final flush; and no event with an empty summary is ever in the
\* buffer or in a batch.
C37_EachEventPostedAtMostOnce ==
    /\ \A i, j \in 1 .. Len(reporter.posted) :
        \A a \in 1 .. Len(reporter.posted[i].events) :
        \A b \in 1 .. Len(reporter.posted[j].events) :
            reporter.posted[i].events[a] = reporter.posted[j].events[b]
                => (i = j /\ a = b)
    /\ \A e \in Range(reporter.buffer) \cup Range(reporter.batch)
                \cup Range(reporter.flusher_batch) :
        e.summary # ""
    /\ \A i \in 1 .. Len(reporter.posted) :
        \A e \in Range(reporter.posted[i].events) : e.summary # ""

\* The reporter has read a blank line and two others, the flusher has POSTed
\* one batch and the final flush another.
C37_Witness ==
    /\ reporter.main = "exited"
    /\ Len(reporter.posted) = 2
    /\ " " \in Range(reporter.stdout)

\* C38: a failed activity POST stays where it happened.  No exception leaves
\* flush_events or _post_activity; every line the reporter has read is on
\* stdout; _post_activity makes a request only with both the broker URL and
\* the session id set; the events of a failed batch are in no later request;
\* and a step that POSTs makes one request, puts nothing back into the buffer
\* and leaves its thread running.
C38_FailedPostIsDropped ==
    /\ [](/\ reporter.main # "raised"
          /\ reporter.flusher # "raised"
          /\ ~activity.raised
          /\ reporter.stdout = SubSeq(reporter.stdin, 1, reporter.read)
          /\ \A k \in 1 .. Len(activity.requests) :
                /\ activity.requests[k].broker_url \notin {Unset, ""}
                /\ activity.requests[k].session_id \notin {Unset, ""}
          /\ \A i, j \in 1 .. Len(reporter.posted) :
                (i < j /\ reporter.posted[i].outcome = "raised")
                    => Range(reporter.posted[i].events)
                           \cap Range(reporter.posted[j].events) = {})
    /\ [][(reporter'.posted # reporter.posted) =>
            /\ Len(reporter'.posted) = Len(reporter.posted) + 1
            /\ reporter'.buffer = reporter.buffer
            /\ reporter'.main \in {reporter.main, "exited"}
            /\ reporter'.flusher \in {reporter.flusher, "sleep"}
            /\ Range(reporter'.posted[Len(reporter'.posted)].events)
                   \cap (Range(reporter'.batch) \cup Range(reporter'.flusher_batch)) = {}]_vars

\* A batch of the flusher failed and the reporter went on to read the rest of
\* its input and to POST its final batch; a tool's POST failed as well.
C38_Witness ==
    /\ reporter.main = "exited"
    /\ reporter.stdout = reporter.stdin
    /\ Len(reporter.posted) = 2
    /\ reporter.posted[1].outcome = "raised"
    /\ activity.requests # <<>>
    /\ activity.requests[1].outcome = "raised"
    /\ ~activity.raised

\* C39: no call of _sync_get_slot_score raises; a call whose reply holds
\* ["player"] = n returns score n; a call whose connection failed, whose reply
\* was empty, or whose reply was neither such a dump nor a JSON object returns
\* score 0.
C39_ScoreReadNeverRaises ==
    \A k \in 1 .. Len(score_reads) :
        /\ ~score_reads[k].result.raised
        /\ score_reads[k].reply.kind = "dump"
            => score_reads[k].result.score = score_reads[k].reply.player
        /\ score_reads[k].reply.kind \in {"error", "empty", "unparseable", "json_value"}
            => score_reads[k].result.score = 0

\* A reply with a positive player score was read, and a JSON reply that is not
\* an object.
C39_Witness ==
    /\ Len(score_reads) = 2
    /\ score_reads[1].reply = [kind |-> "dump", player |-> MaxScore]
    /\ score_reads[1].result.score = MaxScore
    /\ score_reads[2].reply.kind = "json_value"
    /\ score_reads[2].result.score = 0
====
